---- MODULE Spec2Model ----
(***************************************************************************)
(* The Ontime integration: the coordinator's poll tick (_async_update_data *)
(* and _fetch_data), the service handlers with api_request, and the config *)
(* flow's connectivity probe, modelled as state machines over JSON values. *)
(***************************************************************************)
EXTENDS Integers, Sequences, FiniteSets, TLC

(***************************************************************************)
(* JSON / Python values.  Every value is a function, so that any two can   *)
(* be compared: scalars are tagged one-field records, a dict is a function *)
(* from its keys, a list is a tagged sequence.                             *)
(***************************************************************************)
Null == [null |-> TRUE]
N(n) == [num |-> n]
S(s) == [str |-> s]
B(b) == [bool |-> b]
L(seq) == [list |-> seq]
EmptyDict == <<>>

Tags == {"null", "num", "str", "bool", "list", "badjson"}
IsDict(v) == DOMAIN v \cap Tags = {}
IsList(v) == DOMAIN v = {"list"}

\* Python truthiness: None, {}, [], 0, "" and False are falsy
Truthy(v) == v \notin {Null, EmptyDict, L(<<>>), N(0), S(""), B(FALSE)}

\* `k in v`: key membership for a dict; the lists and strings of the model
\* never hold k; any other operand raises TypeError (see SupportsIn)
Has(v, k) == IsDict(v) /\ k \in DOMAIN v
SupportsIn(v) == IsDict(v) \/ IsList(v) \/ DOMAIN v = {"str"}

\* dict.get(k, default)
Get(d, k, default) == IF k \in DOMAIN d THEN d[k] ELSE default

\* d[k] = v
Put(d, k, v) == [x \in DOMAIN d \cup {k} |-> IF x = k THEN v ELSE d[x]]

Abs(n) == IF n < 0 THEN -n ELSE n

(***************************************************************************)
(* HTTP outcomes of one request.                                           *)
(***************************************************************************)
Response(status, body) == [status |-> status, body |-> body]
ClientError == [error |-> "ClientError"]   \* connection refused, DNS failure
Hang == [error |-> "hang"]                 \* never completes: the timeout fires
NoResponse == [none |-> TRUE]              \* no request made
BadJson == [badjson |-> TRUE]              \* a body that response.json() rejects
IsResponse(o) == "status" \in DOMAIN o

(***************************************************************************)
(* OntimeDataUpdateCoordinator._fetch_data, the primary part.              *)
(* A result is [raised |-> "none", data |-> d] or [raised |-> <exception>].*)
(***************************************************************************)
Ok(d) == [raised |-> "none", data |-> d]
Raised(e) == [raised |-> e]

\* OvertimeFields with a non-strict test: a timer at 0 counts as overtime
OvertimeFieldsNonStrict(d, timer_data) ==
    LET current_time == Get(timer_data, "current", N(0))
        is_overtime == IF current_time # Null THEN current_time.num <= 0 ELSE FALSE
        overtime_seconds ==
            IF Truthy(current_time) /\ current_time.num < 0
            THEN Abs(current_time.num) \div 1000
            ELSE 0
    IN  Put(Put(d, "is_overtime", B(is_overtime)),
            "overtime_seconds", N(overtime_seconds))

\* OvertimeFields dividing before taking the absolute value: abs(current // 1000)
OvertimeFieldsFloorFirst(d, timer_data) ==
    LET current_time == Get(timer_data, "current", N(0))
        is_overtime == IF current_time # Null THEN current_time.num < 0 ELSE FALSE
        overtime_seconds ==
            IF Truthy(current_time) /\ current_time.num < 0
            THEN Abs(current_time.num \div 1000)
            ELSE 0
    IN  Put(Put(d, "is_overtime", B(is_overtime)),
            "overtime_seconds", N(overtime_seconds))

\* is_overtime / overtime_seconds of a truthy timer record
OvertimeFields(d, timer_data) ==
    LET current_time == Get(timer_data, "current", N(0))
        is_overtime == IF current_time # Null THEN current_time.num < 0 ELSE FALSE
        overtime_seconds ==
            IF Truthy(current_time) /\ current_time.num < 0
            THEN Abs(current_time.num) \div 1000
            ELSE 0
    IN  Put(Put(d, "is_overtime", B(is_overtime)),
            "overtime_seconds", N(overtime_seconds))

\* the fields taken from poll_data["payload"]
ExtractRuntime(runtime_data) ==
    LET d0 == Put(EmptyDict, "runtime", runtime_data)
        d1 == IF Has(runtime_data, "timer")
              THEN Put(d0, "timer", runtime_data["timer"]) ELSE d0
        d2 == IF Has(runtime_data, "eventNow")
              THEN Put(d1, "current_event", runtime_data["eventNow"])
              ELSE IF Has(runtime_data, "currentEvent")
                   THEN Put(d1, "current_event", runtime_data["currentEvent"])
                   ELSE d1
        d3 == IF Has(runtime_data, "eventNext")
              THEN Put(d2, "next_event", runtime_data["eventNext"])
              ELSE IF Has(runtime_data, "nextEvent")
                   THEN Put(d2, "next_event", runtime_data["nextEvent"])
                   ELSE d2
        d4 == IF Has(runtime_data, "publicEventNext")
              THEN Put(d3, "public_next_event", runtime_data["publicEventNext"])
              ELSE d3
        d5 == IF Has(runtime_data, "timer") /\ Truthy(runtime_data["timer"])
              THEN OvertimeFields(d4, runtime_data["timer"])
              ELSE d4
        d6 == IF Has(runtime_data, "playback")
              THEN Put(d5, "playback", runtime_data["playback"])
              ELSE IF Has(runtime_data, "timer") /\ Has(runtime_data["timer"], "playback")
                   THEN Put(d5, "playback", runtime_data["timer"]["playback"])
                   ELSE d5
    IN  IF ~SupportsIn(runtime_data)
        THEN Raised("TypeError")             \* "timer" in None
        ELSE IF /\ ~Has(runtime_data, "playback")
                /\ Has(runtime_data, "timer")
                /\ ~SupportsIn(runtime_data["timer"])
             THEN Raised("TypeError")        \* "playback" in None
             ELSE Ok(d6)

\* what the poll response leaves in data, or the exception it ends with
ExtractPoll(poll_response) ==
    IF poll_response.status \in {200, 202}
    THEN LET poll_data == poll_response.body IN
         IF poll_data = BadJson THEN Raised("JSONDecodeError")
         ELSE IF ~SupportsIn(poll_data) THEN Raised("TypeError")
         ELSE IF Has(poll_data, "payload")
              THEN ExtractRuntime(poll_data["payload"])
              ELSE Ok(EmptyDict)
    ELSE Ok(EmptyDict)                       \* warning logged, fetch goes on

\* FetchPrimary with transport failures and unparsable bodies swallowed the
\* way the rundown block swallows them
FetchPrimarySwallowed(outcome) ==
    IF outcome \in {ClientError, Hang} THEN Ok(EmptyDict)
    ELSE IF ExtractPoll(outcome).raised = "JSONDecodeError" THEN Ok(EmptyDict)
    ELSE ExtractPoll(outcome)

\* the primary request under the 10 s timeout of _async_update_data
FetchPrimary(outcome) ==
    IF outcome = ClientError THEN Raised("ClientError")
    ELSE IF outcome = Hang THEN Raised("TimeoutError")
    ELSE ExtractPoll(outcome)

(***************************************************************************)
(* _fetch_data, the rundown part: every Exception is swallowed.            *)
(***************************************************************************)
RECURSIVE ScanRundownAnySkip(_, _, _, _)
\* ScanRundown without the skip test: a skipped event is taken as next
ScanRundownAnySkip(events, i, current_id, found_current) ==
    IF i > Len(events) THEN [raised |-> FALSE, found |-> FALSE]
    ELSE LET event == events[i] IN
         IF ~IsDict(event) THEN [raised |-> TRUE, found |-> FALSE]
         ELSE IF Get(event, "type", Null) = S("event")
              THEN IF found_current
                   THEN [raised |-> FALSE, found |-> TRUE, event |-> event]
                   ELSE IF Get(event, "id", Null) = current_id
                        THEN ScanRundownAnySkip(events, i + 1, current_id, TRUE)
                        ELSE ScanRundownAnySkip(events, i + 1, current_id, found_current)
              ELSE ScanRundownAnySkip(events, i + 1, current_id, found_current)

RECURSIVE ScanRundown(_, _, _, _)
\* the for loop over events from position i on
ScanRundown(events, i, current_id, found_current) ==
    IF i > Len(events) THEN [raised |-> FALSE, found |-> FALSE]
    ELSE LET event == events[i] IN
         IF ~IsDict(event) THEN [raised |-> TRUE, found |-> FALSE]
         ELSE IF Get(event, "type", Null) = S("event")
              THEN IF found_current /\ ~Truthy(Get(event, "skip", B(FALSE)))
                   THEN [raised |-> FALSE, found |-> TRUE, event |-> event]
                   ELSE IF Get(event, "id", Null) = current_id
                        THEN ScanRundown(events, i + 1, current_id, TRUE)
                        ELSE ScanRundown(events, i + 1, current_id, found_current)
              ELSE ScanRundown(events, i + 1, current_id, found_current)

\* current_id as the rundown block determines it
CurrentId(d) ==
    IF Truthy(Get(d, "current_event", Null))
    THEN Get(d["current_event"], "id", Null)
    ELSE IF Truthy(Get(Get(d, "runtime", EmptyDict), "selectedEventId", Null))
         THEN d["runtime"]["selectedEventId"]
         ELSE Null

\* next_event inferred from the stored rundown
InferNext(d) ==
    IF Has(d, "rundown") /\ IsList(d["rundown"])
    THEN LET current_id == CurrentId(d)
             scan == ScanRundown(d["rundown"].list, 1, current_id, FALSE)
         IN  IF Truthy(current_id) /\ scan.found /\ ~Has(d, "next_event")
             THEN Put(d, "next_event", scan.event)
             ELSE d
    ELSE d

\* data after the rundown try block; ClientError and parse errors are swallowed
EnrichRundown(d, outcome) ==
    IF ~IsResponse(outcome) THEN d
    ELSE IF outcome.status \in {200, 202}
         THEN LET rundown_data == outcome.body IN
              IF rundown_data = BadJson \/ ~SupportsIn(rundown_data) THEN d
              ELSE IF Has(rundown_data, "payload")
                   THEN InferNext(Put(d, "rundown", rundown_data["payload"]))
                   ELSE d
         ELSE d

\* the rundown request under the same timeout: a request that never completes
\* is cancelled, and the cancellation is no Exception the try block catches
FetchRundown(d, outcome) ==
    IF outcome = Hang THEN Raised("TimeoutError")
    ELSE Ok(EnrichRundown(d, outcome))

(***************************************************************************)
(* The service handlers of _async_register_services and api_request.       *)
(***************************************************************************)
\* str(v) as an f-string formats it
Str(v) ==
    IF v = Null THEN "None"
    ELSE IF DOMAIN v = {"num"} THEN ToString(v.num)
    ELSE v.str

\* the schema each service is registered with: Required keys present and of
\* their type, no key beyond the schema's
Directions == {S("add"), S("remove"), S("subtract")}
IsString(v) == DOMAIN v = {"str"}
IsPositiveInt(v) == DOMAIN v = {"num"} /\ v.num >= 0
\* the schemas with add_time's direction left unconstrained
SchemaAcceptsAnyDirection(service, call_data) ==
    CASE service \in {"load_event", "start_event"} ->
            /\ DOMAIN call_data = {"event_id"}
            /\ IsString(call_data["event_id"])
      [] service = "add_time" ->
            /\ "time" \in DOMAIN call_data
            /\ DOMAIN call_data \subseteq {"time", "direction"}
            /\ IsPositiveInt(call_data["time"])
      [] service = "load_event_index" ->
            /\ DOMAIN call_data = {"event_index"}
            /\ IsPositiveInt(call_data["event_index"])
      [] service = "load_event_cue" ->
            /\ DOMAIN call_data = {"event_cue"}
            /\ IsString(call_data["event_cue"])
      [] OTHER -> TRUE

SchemaAccepts(service, call_data) ==
    CASE service \in {"load_event", "start_event"} ->
            /\ DOMAIN call_data = {"event_id"}
            /\ IsString(call_data["event_id"])
      [] service = "add_time" ->
            /\ "time" \in DOMAIN call_data
            /\ DOMAIN call_data \subseteq {"time", "direction"}
            /\ IsPositiveInt(call_data["time"])
            /\ Has(call_data, "direction") => call_data["direction"] \in Directions
      [] service = "load_event_index" ->
            /\ DOMAIN call_data = {"event_index"}
            /\ IsPositiveInt(call_data["event_index"])
      [] service = "load_event_cue" ->
            /\ DOMAIN call_data = {"event_cue"}
            /\ IsString(call_data["event_cue"])
      [] OTHER -> TRUE

\* handle_add_time passing the milliseconds on unconverted
AddTimeEndpointMillis(call_data) ==
    LET time == Get(call_data, "time", Null)
        direction == Get(call_data, "direction", S("add"))
        time_seconds == time.num
    IN  IF direction \in {S("remove"), S("subtract")}
        THEN "/addtime/remove/" \o ToString(time_seconds)
        ELSE "/addtime/add/" \o ToString(time_seconds)

\* handle_add_time knowing only the direction "remove"
AddTimeEndpointRemoveOnly(call_data) ==
    LET time == Get(call_data, "time", Null)
        direction == Get(call_data, "direction", S("add"))
        time_seconds == time.num \div 1000
    IN  IF direction \in {S("remove")}
        THEN "/addtime/remove/" \o ToString(time_seconds)
        ELSE "/addtime/add/" \o ToString(time_seconds)

\* handle_add_time: the endpoint it requests
AddTimeEndpoint(call_data) ==
    LET time == Get(call_data, "time", Null)
        direction == Get(call_data, "direction", S("add"))
        time_seconds == time.num \div 1000
    IN  IF direction \in {S("remove"), S("subtract")}
        THEN "/addtime/remove/" \o ToString(time_seconds)
        ELSE "/addtime/add/" \o ToString(time_seconds)

\* the handlers requesting the /playback/... paths of the older API
HandlerEndpointPlayback(service, call_data) ==
    CASE service = "start" -> "/playback/start"
      [] service = "pause" -> "/playback/pause"
      [] service = "stop" -> "/playback/stop"
      [] service = "reload" -> "/playback/reload"
      [] service = "roll" -> "/playback/roll"
      [] service = "load_event" ->
            "/load/id/" \o Str(Get(call_data, "event_id", Null))
      [] service = "start_event" ->
            "/start/id/" \o Str(Get(call_data, "event_id", Null))
      [] service = "add_time" -> AddTimeEndpoint(call_data)
      [] service = "load_event_index" ->
            "/load/index/" \o Str(Get(call_data, "event_index", Null))
      [] service = "load_event_cue" ->
            "/load/cue/" \o Str(Get(call_data, "event_cue", Null))

\* the endpoint each handler requests with GET
HandlerEndpoint(service, call_data) ==
    CASE service = "start" -> "/start"
      [] service = "pause" -> "/pause"
      [] service = "stop" -> "/stop"
      [] service = "reload" -> "/reload"
      [] service = "roll" -> "/roll"
      [] service = "load_event" ->
            "/load/id/" \o Str(Get(call_data, "event_id", Null))
      [] service = "start_event" ->
            "/start/id/" \o Str(Get(call_data, "event_id", Null))
      [] service = "add_time" -> AddTimeEndpoint(call_data)
      [] service = "load_event_index" ->
            "/load/index/" \o Str(Get(call_data, "event_index", Null))
      [] service = "load_event_cue" ->
            "/load/cue/" \o Str(Get(call_data, "event_cue", Null))

Services ==
    {"start", "pause", "stop", "reload", "roll", "load_event", "start_event",
     "add_time", "load_event_index", "load_event_cue"}

\* the config entries, each with the host and port of its data, and the
\* base_url of the coordinator made for it
Entries == {"entry1", "entry2"}
host(entry) == IF entry = "entry1" THEN "ontime.local" ELSE "stage2.local"
port == 4001
base_url(entry) == "http://" \o host(entry) \o ":" \o ToString(port) \o "/api"

\* api_request of the entry's coordinator: url = f"{self.base_url}{endpoint}"
RequestUrl(entry, endpoint) == base_url(entry) \o endpoint

\* api_request once its request has ended with `outcome`
Returned(v) == [kind |-> "returned", value |-> v]
CommandRaised(e) == [kind |-> "raised", error |-> e]

\* api_request swallowing its timeout: the caller gets nothing
ApiResultTimeoutSwallowed(outcome) ==
    IF outcome = ClientError THEN CommandRaised("ClientError")
    ELSE IF outcome = Hang THEN Returned(Null)
    ELSE IF outcome.status \notin {200, 202} THEN CommandRaised("ClientError")
    ELSE IF Truthy(outcome.content_length) /\ outcome.content_length.num > 0
         THEN IF outcome.body = BadJson THEN CommandRaised("JSONDecodeError")
              ELSE Returned(Get(outcome.body, "payload", outcome.body))
         ELSE Returned(Null)

\* api_request taking a status outside [200, 202] for an empty success
ApiResultSwallowed(outcome) ==
    IF outcome = ClientError THEN CommandRaised("ClientError")
    ELSE IF outcome = Hang THEN CommandRaised("TimeoutError")
    ELSE IF outcome.status \notin {200, 202} THEN Returned(Null)
    ELSE IF Truthy(outcome.content_length) /\ outcome.content_length.num > 0
         THEN IF outcome.body = BadJson THEN CommandRaised("JSONDecodeError")
              ELSE Returned(Get(outcome.body, "payload", outcome.body))
         ELSE Returned(Null)

ApiResult(outcome) ==
    IF outcome = ClientError THEN CommandRaised("ClientError")
    ELSE IF outcome = Hang THEN CommandRaised("TimeoutError")
    ELSE IF outcome.status \notin {200, 202} THEN CommandRaised("ClientError")
    ELSE IF Truthy(outcome.content_length) /\ outcome.content_length.num > 0
         THEN IF outcome.body = BadJson THEN CommandRaised("JSONDecodeError")
              ELSE Returned(Get(outcome.body, "payload", outcome.body))
         ELSE Returned(Null)

(***************************************************************************)
(* OntimeHub._test_connection, the connectivity probe of the config flow.  *)
(***************************************************************************)
test_configs ==
    << [endpoint |-> "/api/version", headers |-> "none"],
       [endpoint |-> "/api/poll", headers |-> "none"],
       [endpoint |-> "/api/version", headers |-> "User-Agent: Home-Assistant"],
       [endpoint |-> "/api/version", headers |-> "Accept, User-Agent: Mozilla/5.0"] >>

ServerTimeout == [error |-> "ServerTimeoutError"]
\* a body that is no JSON: plain text of the given length
PlainText(len) == [badjson |-> TRUE, len |-> len]
IsPlainText(body) == "badjson" \in DOMAIN body

\* a 200 response's body, as the try block of the attempt reads it
ProbeBodyAccepted(body) ==
    IF IsPlainText(body)
    THEN body.len > 0 /\ body.len < 20          \* short text taken as the version
    ELSE IF ~SupportsIn(body) THEN FALSE         \* TypeError, caught and logged
    ELSE IF Has(body, "payload") THEN TRUE
    ELSE DOMAIN body = {"str"}                   \* a bare JSON string

\* one attempt: "success" (return True), "next" (go on to the next config) or
\* "NameError" (the except clause naming asyncio is reached: the module does
\* not import asyncio)
AttemptResult(outcome) ==
    IF outcome \in {ClientError, ServerTimeout} THEN "next"
    ELSE IF outcome = Hang THEN "NameError"
    ELSE IF outcome.status = 200
         THEN IF ProbeBodyAccepted(outcome.body) THEN "success" ELSE "next"
         ELSE "next"

\* a flow that creates the entry although the probe returned False
FlowResultLenient(probe_outcome, already_configured) ==
    IF probe_outcome \in {"true", "false"}
    THEN IF already_configured THEN "abort" ELSE "create_entry"
    ELSE "unknown"

\* ConfigFlow.async_step_user with user input, once validate_input has ended:
\* the entry is created, the flow aborts (unique id already configured), or
\* the form is shown again with errors["base"]
FlowResult(probe_outcome, already_configured) ==
    IF probe_outcome = "true"
    THEN IF already_configured THEN "abort" ELSE "create_entry"
    ELSE IF probe_outcome = "false" THEN "cannot_connect"
    ELSE "unknown"

(***************************************************************************)
(* State.                                                                  *)
(***************************************************************************)
VARIABLES
    coordinator_data,   \* coordinator.data: the published snapshot, Null before the first
    fetch_pc,           \* "idle" | "poll" | "rundown": where _fetch_data is waiting
    data,               \* the local dict _fetch_data builds
    requests,           \* the endpoints this tick has requested, in order
    poll_response,      \* outcome of this tick's GET /poll
    rundown_response,   \* outcome of this tick's GET /data/rundown
    update_result,      \* "none" | "pending" | "ok" | "UpdateFailed": how the tick ended
    remote_poll,        \* the outcomes the remote server may give GET /poll
    remote_rundown,     \* the outcomes the remote server may give GET /data/rundown
    call,               \* the service call last handed to a handler
    cmd_pc,             \* "idle" | "await": where api_request is waiting
    cmd_requests,       \* the requests the call has issued, in order
    cmd_response,       \* outcome of the call's request
    cmd_result,         \* how the call ended
    loaded,             \* the config entries in hass.data[DOMAIN]
    service_coordinator,\* the entry whose coordinator the registered handlers
                        \* close over, "none" while no service is registered
    probe_pc,           \* "idle" | "attempt" | "done": where _test_connection is
    probe_index,        \* the test_configs entry being tried
    probe_log,          \* the test_configs entries requested so far, in order
    probe_response,     \* outcome of the last attempt's request
    probe_result,       \* "none" | "pending" | "true" | "false" | "NameError"
    flow_result,        \* "none" | "pending" | "create_entry" | "abort" |
                        \* "cannot_connect" | "unknown": how async_step_user ended
    configured,         \* a config entry with the entered host:port exists
    sensor_added,       \* the sensor platform has been set up: the sensors exist
    was_overtime,       \* OntimeOvertimeSensor._was_overtime
    last_update_success,\* the coordinator's last refresh succeeded
    events_fired        \* how many ontime_overtime_started events were fired

sensorVars == <<sensor_added, was_overtime, last_update_success, events_fired>>
fetchVars == <<coordinator_data, fetch_pc, data, requests, poll_response,
               rundown_response, update_result, sensorVars>>
remoteVars == <<remote_poll, remote_rundown>>

entryVars == <<loaded, service_coordinator>>
cmdVars == <<call, cmd_pc, cmd_requests, cmd_response, cmd_result, entryVars>>

probeVars == <<probe_pc, probe_index, probe_log, probe_response, probe_result,
               flow_result, configured>>

vars == <<fetchVars, remoteVars, cmdVars, probeVars>>

InitFetch ==
    /\ coordinator_data = Null
    /\ fetch_pc = "idle"
    /\ data = EmptyDict
    /\ requests = <<>>
    /\ poll_response = NoResponse
    /\ rundown_response = NoResponse
    /\ update_result = "none"
    /\ sensor_added = FALSE
    /\ was_overtime = FALSE
    /\ last_update_success = FALSE
    /\ events_fired = 0

NoCall == [none |-> TRUE]
InitCommand ==
    /\ call = NoCall
    /\ cmd_pc = "idle"
    /\ cmd_requests = <<>>
    /\ cmd_response = NoResponse
    /\ cmd_result = [kind |-> "none"]
    /\ loaded = {"entry1"}
    /\ service_coordinator = "entry1"

InitProbe ==
    /\ probe_pc = "idle"
    /\ probe_index = 0
    /\ probe_log = <<>>
    /\ probe_response = NoResponse
    /\ probe_result = "none"
    /\ flow_result = "none"
    /\ configured = FALSE

\* the number of overtime events one run of the model may fire
MaxEvents == 2

\* OntimeOvertimeSensor._handle_coordinator_update with coordinator.data = d
HandleCoordinatorUpdate(d) ==
    IF Truthy(d) /\ Truthy(Get(d, "is_overtime", Null))
    THEN /\ was_overtime' = TRUE
         /\ events_fired' = IF was_overtime THEN events_fired ELSE events_fired + 1
    ELSE /\ was_overtime' = FALSE
         /\ UNCHANGED events_fired

\* the tick ends with UpdateFailed: nothing is published; the listeners are
\* told when the refresh before had succeeded
RaiseUpdateFailed ==
    /\ update_result' = "UpdateFailed"
    /\ fetch_pc' = "idle"
    /\ data' = EmptyDict
    /\ UNCHANGED <<coordinator_data, sensor_added>>
    /\ last_update_success' = FALSE
    /\ IF sensor_added /\ last_update_success
       THEN HandleCoordinatorUpdate(coordinator_data)
       ELSE UNCHANGED <<was_overtime, events_fired>>

\* the listeners are told of d; after the first refresh async_setup_entry sets
\* up the sensor platform instead, which creates the sensors
NotifySensors(d) ==
    /\ last_update_success' = TRUE
    /\ sensor_added' = TRUE
    /\ IF sensor_added
       THEN HandleCoordinatorUpdate(d)
       ELSE was_overtime' = FALSE /\ UNCHANGED events_fired

\* the returned dict merged into the snapshot published before
PublishMerged(d) ==
    /\ update_result' = "ok"
    /\ fetch_pc' = "idle"
    /\ data' = EmptyDict
    /\ coordinator_data' = IF coordinator_data = Null THEN d ELSE d @@ coordinator_data
    /\ NotifySensors(d)

\* the tick ends with _fetch_data's return value, which the coordinator publishes
Publish(d) ==
    /\ update_result' = "ok"
    /\ fetch_pc' = "idle"
    /\ data' = EmptyDict
    /\ coordinator_data' = d
    /\ NotifySensors(d)

\* the host's timer calls _async_update_data: data = {} and GET <base>/poll
Tick ==
    /\ fetch_pc = "idle"
    /\ events_fired < MaxEvents
    /\ fetch_pc' = "poll"
    /\ data' = EmptyDict
    /\ requests' = <<"/poll">>
    /\ poll_response' = NoResponse
    /\ rundown_response' = NoResponse
    /\ update_result' = "pending"
    /\ UNCHANGED <<coordinator_data, sensorVars, remoteVars, cmdVars, probeVars>>

\* the poll request ends; on no exception the rundown request is issued
PollDone ==
    /\ fetch_pc = "poll"
    /\ UNCHANGED <<remoteVars, cmdVars, probeVars>>
    /\ \E outcome \in remote_poll :
        LET r == FetchPrimary(outcome) IN
        /\ poll_response' = outcome
        /\ UNCHANGED rundown_response
        /\ IF r.raised # "none"
           THEN RaiseUpdateFailed /\ UNCHANGED requests
           ELSE /\ data' = r.data
                /\ requests' = Append(requests, "/data/rundown")
                /\ fetch_pc' = "rundown"
                /\ UNCHANGED <<coordinator_data, update_result, sensorVars>>

\* the rundown request ends, and _fetch_data returns
RundownDone ==
    /\ fetch_pc = "rundown"
    /\ UNCHANGED <<remoteVars, cmdVars, probeVars>>
    /\ \E outcome \in remote_rundown :
        LET r == FetchRundown(data, outcome) IN
        /\ rundown_response' = outcome
        /\ UNCHANGED <<requests, poll_response>>
        /\ IF r.raised # "none" THEN RaiseUpdateFailed ELSE Publish(r.data)

(***************************************************************************)
(* A service call: the host validates it against the schema, the handler   *)
(* builds the endpoint and api_request issues the request.                 *)
(***************************************************************************)
CallService(service, call_data) ==
    /\ cmd_pc = "idle"
    /\ service_coordinator # "none"
    /\ UNCHANGED entryVars
    /\ call' = [service |-> service, data |-> call_data]
    /\ cmd_response' = NoResponse
    /\ IF SchemaAccepts(service, call_data)
       THEN /\ cmd_requests' =
                 << [method |-> "GET",
                     endpoint |-> HandlerEndpoint(service, call_data),
                     url |-> RequestUrl(service_coordinator,
                                        HandlerEndpoint(service, call_data))] >>
            /\ cmd_pc' = "await"
            /\ cmd_result' = [kind |-> "pending"]
       ELSE /\ cmd_requests' = <<>>
            /\ cmd_pc' = "idle"
            /\ cmd_result' = [kind |-> "rejected"]
    /\ UNCHANGED <<fetchVars, remoteVars, probeVars>>

\* a command that asks the coordinator for a refresh once it has ended
CommandDoneRefreshing(outcome) ==
    /\ cmd_pc = "await"
    /\ cmd_response' = outcome
    /\ cmd_result' = ApiResult(outcome)
    /\ cmd_pc' = "idle"
    /\ UNCHANGED <<call, cmd_requests, entryVars, remoteVars, probeVars>>
    /\ IF fetch_pc = "idle"
       THEN /\ fetch_pc' = "poll"
            /\ data' = EmptyDict
            /\ requests' = <<"/poll">>
            /\ poll_response' = NoResponse
            /\ rundown_response' = NoResponse
            /\ update_result' = "pending"
            /\ UNCHANGED <<coordinator_data, sensorVars>>
       ELSE UNCHANGED fetchVars

\* the request of api_request ends with `outcome`
CommandDone(outcome) ==
    /\ cmd_pc = "await"
    /\ cmd_response' = outcome
    /\ cmd_result' = ApiResult(outcome)
    /\ cmd_pc' = "idle"
    /\ UNCHANGED <<call, cmd_requests, entryVars, fetchVars, remoteVars, probeVars>>

(***************************************************************************)
(* Config entries are set up and unloaded.                                 *)
(***************************************************************************)
\* _async_register_services(hass, coordinator): the handlers close over the
\* coordinator; they are registered unless the start service already exists
RegisterServices(entry) ==
    service_coordinator' =
        IF service_coordinator = "none" THEN entry ELSE service_coordinator

\* async_setup_entry once the first refresh has succeeded
SetupEntry(entry) ==
    /\ entry \notin loaded
    /\ loaded' = loaded \cup {entry}
    /\ RegisterServices(entry)
    /\ UNCHANGED <<call, cmd_pc, cmd_requests, cmd_response, cmd_result,
                   fetchVars, remoteVars, probeVars>>

\* async_unload_entry with the platforms unloaded: the coordinator is popped
\* from hass.data, the services stay registered
UnloadEntry(entry) ==
    /\ entry \in loaded
    /\ loaded' = loaded \ {entry}
    /\ UNCHANGED <<service_coordinator, call, cmd_pc, cmd_requests, cmd_response,
                   cmd_result, fetchVars, remoteVars, probeVars>>

(***************************************************************************)
(* The probe: the first config is requested, then one config after the     *)
(* other until one succeeds.                                               *)
(***************************************************************************)
ProbeStart ==
    /\ probe_pc # "attempt"
    /\ probe_pc' = "attempt"
    /\ probe_index' = 1
    /\ probe_log' = <<test_configs[1]>>
    /\ probe_response' = NoResponse
    /\ probe_result' = "pending"
    /\ flow_result' = "pending"
    /\ UNCHANGED <<configured, fetchVars, remoteVars, cmdVars>>

ProbeAttemptDone(outcome) ==
    /\ probe_pc = "attempt"
    /\ probe_response' = outcome
    /\ LET r == AttemptResult(outcome) IN
       IF r = "next" /\ probe_index < Len(test_configs)
       THEN /\ probe_index' = probe_index + 1
            /\ probe_log' = Append(probe_log, test_configs[probe_index + 1])
            /\ UNCHANGED <<probe_pc, probe_result, flow_result, configured>>
       ELSE /\ probe_pc' = "done"
            /\ probe_result' = CASE r = "success" -> "true"
                                  [] r = "next" -> "false"
                                  [] OTHER -> r
            /\ flow_result' = FlowResult(probe_result', configured)
            /\ configured' = (configured \/ flow_result' = "create_entry")
            /\ UNCHANGED <<probe_index, probe_log>>
    /\ UNCHANGED <<fetchVars, remoteVars, cmdVars>>

(***************************************************************************)
(* What the remote server may answer.                                      *)
(***************************************************************************)
Event(id) == [id |-> S(id), title |-> S("Title " \o id)]
Entry(id, type, skip) == [id |-> S(id), type |-> S(type), skip |-> B(skip)]
Block(id) == [id |-> S(id), type |-> S("block")]

\* the rundown of the documented example
RundownExample ==
    << Entry("a", "event", FALSE), Block("b"),
       Entry("c", "event", TRUE), Entry("d", "event", FALSE) >>

\* a rundown with an entry that is no object, before the next playable event
RundownMalformed ==
    << Entry("a", "event", FALSE), S("garbage"), Entry("d", "event", FALSE) >>

\* in overtime on event a, no next event supplied
PayloadOvertime ==
    [timer |-> [current |-> N(-1500), playback |-> S("play")],
     eventNow |-> Event("a")]

\* running on event c, next event and playback supplied
PayloadRunning ==
    [timer |-> [current |-> N(5000)], eventNow |-> Event("c"),
     eventNext |-> Event("d"), playback |-> S("pause")]

Payloads == {PayloadOvertime, PayloadRunning}
Envelope(x) == [payload |-> x]

PollBodies == {BadJson} \cup Payloads \cup {Envelope(T) : T \in Payloads}
PollStatuses == {200, 202, 404, 503}
PollOutcomes ==
    {ClientError, Hang} \cup {Response(s, b) : s \in PollStatuses, b \in PollBodies}

RundownBodies ==
    {BadJson, L(RundownExample), Envelope(L(RundownExample)),
     Envelope(L(RundownMalformed)), Envelope([version |-> S("3")])}
RundownStatuses == {200, 202, 500}
RundownOutcomes ==
    {ClientError, Hang}
        \cup {Response(s, b) : s \in RundownStatuses, b \in RundownBodies}

(***************************************************************************)
(* The poll loop.                                                          *)
(***************************************************************************)
\* a server whose answers vary from request to request
Init ==
    /\ InitFetch
    /\ InitCommand
    /\ InitProbe
    /\ remote_poll = PollOutcomes
    /\ remote_rundown = RundownOutcomes

Next ==
    \/ Tick
    \/ PollDone
    \/ RundownDone

Spec == Init /\ [][Next]_vars

(***************************************************************************)
(* Properties of the poll tick.                                            *)
(***************************************************************************)
Accepted(o) == IsResponse(o) /\ o.status \in {200, 202}
PrimaryKeys ==
    {"timer", "current_event", "next_event", "playback", "is_overtime",
     "overtime_seconds"}
PrimaryFields(d) ==
    IF d = Null THEN EmptyDict ELSE [k \in PrimaryKeys \cap DOMAIN d |-> d[k]]

\* C1: a poll response with a status outside {200, 202} ends the tick with
\* UpdateFailed and the rundown request is never issued in that tick.
C1_BadStatusFailsTick ==
    (IsResponse(poll_response) /\ poll_response.status \notin {200, 202})
        => /\ update_result = "UpdateFailed"
           /\ requests = <<"/poll">>

\* the primary request failed at transport level, or its body is unparsable
PrimaryFails(o) ==
    \/ o \in {ClientError, Hang}
    \/ Accepted(o) /\ o.body = BadJson

\* C2: a tick whose primary request fails at transport level or whose body
\* cannot be parsed raises UpdateFailed and leaves the published snapshot as
\* it was; the published snapshot changes only when a tick succeeds.
C2_FailedPrimaryKeepsSnapshot ==
    [][ /\ (fetch_pc = "poll" /\ PrimaryFails(poll_response'))
            => /\ update_result' = "UpdateFailed"
               /\ fetch_pc' = "idle"
               /\ coordinator_data' = coordinator_data
        /\ (coordinator_data' # coordinator_data) => update_result' = "ok"
      ]_vars

C2_Witness ==
    /\ update_result = "UpdateFailed"
    /\ PrimaryFails(poll_response)
    /\ coordinator_data # Null
    /\ Has(coordinator_data, "timer")

\* every way the rundown request can fail
RundownFails(o) ==
    \/ o \in {ClientError, Hang}
    \/ IsResponse(o) /\ o.status \notin {200, 202}
    \/ Accepted(o) /\ o.body = BadJson
    \/ Accepted(o) /\ o.body = Envelope(L(RundownMalformed))

\* C3: whichever way the rundown request fails, the fetch returns a snapshot
\* whose timer, current event, next event, playback and overtime fields are
\* those derived from the primary response.
C3_RundownFailureSwallowed ==
    (fetch_pc = "idle" /\ RundownFails(rundown_response))
        => /\ update_result = "ok"
           /\ PrimaryFields(coordinator_data)
                = PrimaryFields(ExtractPoll(poll_response).data)

\* the envelope unwrap: {payload: X} yields X, a body without payload yields itself
Unwrap(body) == IF Has(body, "payload") THEN body["payload"] ELSE body

\* C6: a poll body carrying its fields at top level produces the same
\* snapshot as the same document wrapped in payload.
C6_UnwrapWithoutEnvelope ==
    (update_result = "ok" /\ Accepted(poll_response) /\ poll_response.body # BadJson)
        => PrimaryFields(coordinator_data)
             = PrimaryFields(
                 FetchRundown(
                    ExtractPoll(Response(poll_response.status,
                                         Envelope(Unwrap(poll_response.body)))).data,
                    rundown_response).data)

(***************************************************************************)
(* The overtime sensor's projections of the published snapshot.            *)
(***************************************************************************)
\* OntimeOvertimeSensor.extra_state_attributes["is_overtime"]
IsOvertimeAttribute(d) ==
    IF Truthy(d) THEN Get(d, "is_overtime", B(FALSE)) ELSE B(FALSE)

\* OntimeOvertimeSensor.native_value
OvertimeNativeValue(d) ==
    IF Truthy(d) THEN Get(d, "overtime_seconds", N(0)) ELSE N(0)

(***************************************************************************)
(* The poll loop over timer shapes.                                        *)
(***************************************************************************)
MaxHalfSeconds == 5

\* timer.current in milliseconds: around every multiple of 500 up to the bound
TimerCurrents ==
    {k * 500 + j : k \in (-MaxHalfSeconds)..MaxHalfSeconds, j \in {-1, 0, 1}}

TimerRecords ==
    {EmptyDict, [current |-> Null], [playback |-> S("play")]}
        \cup {[current |-> N(c)] : c \in TimerCurrents}

\* timer absent, timer null (with and without a top-level playback), timer records
TimerPayloads ==
    {EmptyDict, [timer |-> Null], [timer |-> Null, playback |-> S("stop")]}
        \cup {[timer |-> t] : t \in TimerRecords}

TimerPollOutcomes == {Response(s, Envelope(T)) : s \in {200, 202}, T \in TimerPayloads}
TimerRundownOutcomes == {ClientError, Response(200, Envelope(L(RundownExample)))}

\* a server in one given state, polled again and again
InitOvertime ==
    /\ InitFetch
    /\ InitCommand
    /\ InitProbe
    /\ \E p \in TimerPollOutcomes : remote_poll = {p}
    /\ \E r \in TimerRundownOutcomes : remote_rundown = {r}

SpecOvertime == InitOvertime /\ [][Next]_vars

\* the payload of the tick's accepted poll response
PollPayload == poll_response.body["payload"]
PublishedFromEnvelope ==
    /\ update_result = "ok"
    /\ Accepted(poll_response)
    /\ Has(poll_response.body, "payload")

\* timer.current of payload T as an integer, where it is one
HasCurrent(T) ==
    /\ Has(T, "timer") /\ IsDict(T["timer"])
    /\ Has(T["timer"], "current") /\ T["timer"]["current"] # Null
CurrentOf(T) == T["timer"]["current"].num

\* C4: is_overtime as consumers read it is true exactly when a timer record
\* is present and timer.current is non-null and strictly negative.
C4_IsOvertimeIffNegative ==
    PublishedFromEnvelope
        => (IsOvertimeAttribute(coordinator_data) = B(TRUE)
              <=> (HasCurrent(PollPayload) /\ CurrentOf(PollPayload) < 0))

C4_Witness ==
    /\ PublishedFromEnvelope
    /\ HasCurrent(PollPayload) /\ CurrentOf(PollPayload) = -1
    /\ IsOvertimeAttribute(coordinator_data) = B(TRUE)

\* C5: overtime_seconds is floor(abs(timer.current) / 1000) when timer.current
\* is negative, and 0 in every other case.
C5_OvertimeSecondsFloor ==
    PublishedFromEnvelope
        => LET secs == OvertimeNativeValue(coordinator_data).num IN
           IF HasCurrent(PollPayload) /\ CurrentOf(PollPayload) < 0
           THEN /\ secs * 1000 <= -CurrentOf(PollPayload)
                /\ -CurrentOf(PollPayload) < (secs + 1) * 1000
           ELSE secs = 0

C5_Witness ==
    /\ PublishedFromEnvelope
    /\ HasCurrent(PollPayload) /\ CurrentOf(PollPayload) = -1999
    /\ OvertimeNativeValue(coordinator_data) = N(1)

(***************************************************************************)
(* The poll loop over rundowns.                                            *)
(***************************************************************************)
MaxRundown == 4

\* ids are identity keys: the entry at position i carries the i-th id
IdSeq == <<"a", "b", "c", "d", "e", "f">>

\* an entry of id: a playable event (skip false or absent), a skipped event, a block
EntryOfKind(k, id) ==
    CASE k = 1 -> Entry(id, "event", FALSE)
      [] k = 2 -> Entry(id, "event", TRUE)
      [] k = 3 -> [id |-> S(id), type |-> S("event")]
      [] OTHER -> Block(id)

Rundowns ==
    UNION { { [i \in 1..n |-> EntryOfKind(f[i], IdSeq[i])] : f \in [1..n -> 1..4] }
            : n \in 0..MaxRundown }

\* the current event is any entry of the rundown, or none of them
CurrentIds == {IdSeq[i] : i \in 1..MaxRundown} \cup {"x"}

RundownPayloads ==
    {[eventNow |-> Event(id)] : id \in CurrentIds}
        \cup {[eventNow |-> Event("a"), eventNext |-> Event("z")],
              [selectedEventId |-> S("b")], EmptyDict}

InitRundown ==
    /\ InitFetch
    /\ InitCommand
    /\ InitProbe
    /\ \E T \in RundownPayloads : remote_poll = {Response(200, Envelope(T))}
    /\ \E r \in Rundowns : remote_rundown = {Response(200, Envelope(L(r)))}

SpecRundown == InitRundown /\ [][Next]_vars

Min(set) == CHOOSE m \in set : \A x \in set : m <= x

Playable(e) ==
    /\ Get(e, "type", Null) = S("event")
    /\ Get(e, "skip", B(FALSE)) = B(FALSE)

\* the tick published a rundown list for a payload with a current event and
\* neither eventNext nor nextEvent
InferenceCase ==
    /\ PublishedFromEnvelope
    /\ Accepted(rundown_response)
    /\ Has(rundown_response.body, "payload")
    /\ IsList(rundown_response.body["payload"])
    /\ Has(PollPayload, "eventNow")
    /\ ~Has(PollPayload, "eventNext") /\ ~Has(PollPayload, "nextEvent")

\* C8: with no next event from the primary response, next event is the first
\* entry after the current event's entry that has type 'event' and is not
\* skipped; blocks and skipped events are never chosen; without such an entry
\* next event stays absent.
C8_NextFromRundown ==
    InferenceCase
        => LET events == rundown_response.body["payload"].list
               current_id == PollPayload["eventNow"]["id"]
               at == {i \in DOMAIN events :
                        events[i]["id"] = current_id /\ events[i]["type"] = S("event")}
               after == {j \in DOMAIN events :
                           at # {} /\ j > Min(at) /\ Playable(events[j])}
           IN  IF after # {}
               THEN /\ Has(coordinator_data, "next_event")
                    /\ coordinator_data["next_event"] = events[Min(after)]
               ELSE ~Has(coordinator_data, "next_event")

\* the documented example: current a, next d
C8_Witness ==
    /\ InferenceCase
    /\ rundown_response.body["payload"] = L(RundownExample)
    /\ PollPayload["eventNow"]["id"] = S("a")
    /\ coordinator_data["next_event"] = Entry("d", "event", FALSE)

(***************************************************************************)
(* Service calls against a server answering the control endpoints.         *)
(***************************************************************************)
\* add_time's time in milliseconds: around every multiple of 500 up to the bound
Times == {k * 500 + j : k \in 0..MaxHalfSeconds, j \in {-1, 0, 1}} \ {-1}

CallData(service) ==
    CASE service = "add_time" ->
            {EmptyDict, [direction |-> S("add")]}
                \cup {[time |-> N(t)] : t \in Times}
                \cup {[time |-> N(t), direction |-> d] :
                        t \in Times, d \in Directions \cup {S("both")}}
      [] service \in {"load_event", "start_event"} ->
            {EmptyDict, [event_id |-> S("a")], [event_id |-> S("a/b c")]}
      [] service = "load_event_index" ->
            {EmptyDict, [event_index |-> N(1)], [event_index |-> N(-1)]}
      [] service = "load_event_cue" ->
            {EmptyDict, [event_cue |-> S("1.5")], [event_cue |-> S("a?b")]}
      [] OTHER -> {EmptyDict}

\* a control response: its status, body and Content-Length (Null when the body
\* is sent without a declared length)
ControlResponse(status, body, content_length) ==
    [status |-> status, body |-> body, content_length |-> content_length]
ControlStatuses == {200, 201, 202, 204, 404, 503}
CommandOutcomes ==
    {ClientError, Hang}
        \cup {ControlResponse(st, Envelope(S("ok")), N(16)) : st \in ControlStatuses}
        \cup {ControlResponse(st, [ok |-> B(TRUE)], N(12)) : st \in ControlStatuses}
        \cup {ControlResponse(st, Envelope(S("ok")), Null) : st \in ControlStatuses}
        \cup {ControlResponse(st, BadJson, N(0)) : st \in ControlStatuses}

NextCommand ==
    \/ \E service \in Services : \E call_data \in CallData(service) :
          CallService(service, call_data)
    \/ \E outcome \in CommandOutcomes : CommandDone(outcome)

SpecCommand == Init /\ [][NextCommand]_vars

\* the add_time call in hand was dispatched
AddTimeDispatched ==
    /\ call # NoCall
    /\ call.service = "add_time"
    /\ cmd_requests # <<>>
AddTimeMillis == call.data["time"].num
AddTimeDirection == Get(call.data, "direction", Null)

\* C9: the seconds segment of add_time's path is floor(time / 1000).
C9_AddTimeFloorSeconds ==
    AddTimeDispatched
        => \E secs \in 0..AddTimeMillis :
              /\ secs * 1000 <= AddTimeMillis
              /\ AddTimeMillis < (secs + 1) * 1000
              /\ cmd_requests[1].endpoint
                    \in {"/addtime/add/" \o ToString(secs),
                         "/addtime/remove/" \o ToString(secs)}

C9_Witness ==
    /\ AddTimeDispatched
    /\ AddTimeMillis = 2500
    /\ cmd_requests[1].endpoint = "/addtime/add/2"

FloorSeconds(t) == CHOOSE secs \in 0..t : secs * 1000 <= t /\ t < (secs + 1) * 1000

\* C10: for the same time, 'subtract' and 'remove' dispatch the one path
\* /addtime/remove/{seconds}; 'add' and an absent direction dispatch
\* /addtime/add/{seconds}.
C10_DirectionAliases ==
    AddTimeDispatched
        => cmd_requests[1].endpoint
             = (IF AddTimeDirection \in {S("remove"), S("subtract")}
                THEN "/addtime/remove/"
                ELSE "/addtime/add/") \o ToString(FloorSeconds(AddTimeMillis))

C10_Witness ==
    /\ AddTimeDispatched
    /\ AddTimeMillis = 1500
    /\ AddTimeDirection = S("subtract")
    /\ cmd_requests[1].endpoint = "/addtime/remove/1"

(***************************************************************************)
(* Every endpoint against a server whose answers differ in status alone:   *)
(* poll ticks, a start command and the probe, interleaved.                 *)
(***************************************************************************)
StatusSamples == {200, 201, 202, 204, 404, 503}

InitEndpoints ==
    /\ InitFetch
    /\ InitCommand
    /\ InitProbe
    /\ remote_poll = {Response(st, Envelope(PayloadOvertime)) : st \in StatusSamples}
    /\ remote_rundown =
          {Response(st, Envelope(L(RundownExample))) : st \in StatusSamples}

NextEndpoints ==
    \/ Tick
    \/ PollDone
    \/ RundownDone
    \/ CallService("start", EmptyDict)
    \/ \E st \in StatusSamples :
          CommandDone(ControlResponse(st, Envelope(S("ok")), N(16)))
    \/ ProbeStart
    \/ \E st \in StatusSamples : ProbeAttemptDone(Response(st, Envelope(S("3.0"))))

SpecEndpoints == InitEndpoints /\ [][NextEndpoints]_vars

\* the response was treated as a success: its body was read and used
PollTreatedAsSuccess == Has(data, "runtime")
RundownTreatedAsSuccess == Has(coordinator_data, "rundown")
CommandTreatedAsSuccess == cmd_result.kind = "returned"
ProbeTreatedAsSuccess == probe_result = "true"

\* C7: on every endpoint a response is treated as success if and only if its
\* status is 200 or 202.
C7_SuccessIffAccepted ==
    /\ (fetch_pc = "rundown")
          => (PollTreatedAsSuccess <=> Accepted(poll_response))
    /\ (update_result = "ok")
          => (RundownTreatedAsSuccess <=> Accepted(rundown_response))
    /\ IsResponse(cmd_response)
          => (CommandTreatedAsSuccess <=> Accepted(cmd_response))
    /\ (IsResponse(probe_response) /\ probe_pc = "done")
          => (ProbeTreatedAsSuccess <=> Accepted(probe_response))

(***************************************************************************)
(* Properties of the commands.                                             *)
(***************************************************************************)
\* the call in hand reached its handler
Dispatched == call # NoCall /\ cmd_result.kind # "rejected"

\* the call's request ended in a transport failure or an unaccepted status
CommandFailed ==
    \/ cmd_response \in {ClientError, Hang}
    \/ IsResponse(cmd_response) /\ cmd_response.status \notin {200, 202}

\* C11: a command invocation issues exactly one HTTP request; when the
\* response status is outside {200, 202} or the transport fails, the error is
\* raised to the caller and no further request is made for the invocation.
C11_OneRequestNoRetry ==
    /\ Dispatched => Len(cmd_requests) = 1
    /\ CommandFailed => /\ cmd_result.kind = "raised"
                        /\ cmd_pc = "idle"
                        /\ Len(cmd_requests) = 1

C11_Witness ==
    /\ Dispatched
    /\ IsResponse(cmd_response) /\ cmd_response.status = 503
    /\ cmd_result = CommandRaised("ClientError")
    /\ Len(cmd_requests) = 1

\* the path of the command table for a service and its parameter
TablePath(service, call_data) ==
    CASE service = "start" -> "/start"
      [] service = "pause" -> "/pause"
      [] service = "stop" -> "/stop"
      [] service = "reload" -> "/reload"
      [] service = "roll" -> "/roll"
      [] service = "load_event" -> "/load/id/" \o call_data["event_id"].str
      [] service = "start_event" -> "/start/id/" \o call_data["event_id"].str
      [] service = "load_event_index" ->
            "/load/index/" \o ToString(call_data["event_index"].num)
      [] service = "load_event_cue" -> "/load/cue/" \o call_data["event_cue"].str

\* C12: each command of the fixed vocabulary is dispatched to its table path
\* under http://{host}:{port}/api, and to no other path.
C12_TablePaths ==
    (Dispatched /\ call.service # "add_time")
        => /\ Len(cmd_requests) = 1
           /\ cmd_requests[1].method = "GET"
           /\ cmd_requests[1].url
                = "http://ontime.local:4001/api" \o TablePath(call.service, call.data)

C12_Witness ==
    /\ Dispatched
    /\ call.service = "load_event_index"
    /\ cmd_requests[1].url = "http://ontime.local:4001/api/load/index/1"

(***************************************************************************)
(* A request path as a URL parser reads it.                                *)
(***************************************************************************)
\* the first position of s holding one of chars, Len(s) + 1 when none does
FirstOf(s, chars) ==
    LET hits == {j \in 1..Len(s) : SubSeq(s, j, j) \in chars}
    IN  IF hits = {} THEN Len(s) + 1 ELSE Min(hits)

\* the path component: what precedes the query ('?') and the fragment ('#')
UrlPath(endpoint) == SubSeq(endpoint, 1, FirstOf(endpoint, {"?", "#"}) - 1)

\* the segments of a path that starts with '/'
RECURSIVE PathSegments(_)
PathSegments(p) ==
    IF p = "" THEN <<>>
    ELSE LET rest == SubSeq(p, 2, Len(p))
             k == FirstOf(rest, {"/"})
         IN  <<SubSeq(rest, 1, k - 1)>> \o PathSegments(SubSeq(rest, k, Len(rest)))

\* percent-decoding of the reserved characters
PercentCodes ==
    [c \in {"%2F", "%3F", "%23", "%25", "%20"} |->
        CASE c = "%2F" -> "/" [] c = "%3F" -> "?" [] c = "%23" -> "#"
          [] c = "%25" -> "%" [] c = "%20" -> " "]
RECURSIVE Unquote(_)
Unquote(seg) ==
    IF seg = "" THEN ""
    ELSE IF Len(seg) >= 3 /\ SubSeq(seg, 1, 3) \in DOMAIN PercentCodes
         THEN PercentCodes[SubSeq(seg, 1, 3)] \o Unquote(SubSeq(seg, 4, Len(seg)))
         ELSE SubSeq(seg, 1, 1) \o Unquote(SubSeq(seg, 2, Len(seg)))

\* the string the caller supplied to load_event, start_event or load_event_cue
SuppliedString ==
    IF call.service = "load_event_cue"
    THEN call.data["event_cue"].str
    ELSE call.data["event_id"].str

\* C13: for load_event, start_event and load_event_cue the supplied string is
\* URL-encoded before substitution: the dispatched path has exactly the three
\* segments of its template and the last segment decodes back to the string.
C13_SegmentEncoded ==
    (Dispatched /\ call.service \in {"load_event", "start_event", "load_event_cue"})
        => LET segments == PathSegments(UrlPath(cmd_requests[1].endpoint))
           IN  /\ Len(segments) = 3
               /\ Unquote(segments[3]) = SuppliedString

\* the parameter each parameterised service requires
RequiredKey(service) ==
    CASE service \in {"load_event", "start_event"} -> "event_id"
      [] service = "load_event_index" -> "event_index"
      [] service = "load_event_cue" -> "event_cue"
      [] service = "add_time" -> "time"

\* the call in hand lacks its required parameter, or is an add_time call with
\* a direction outside {add, remove, subtract}
InvalidCall ==
    /\ call # NoCall
    /\ call.service \in {"load_event", "start_event", "load_event_index",
                          "load_event_cue", "add_time"}
    /\ \/ ~Has(call.data, RequiredKey(call.service))
       \/ /\ call.service = "add_time"
          /\ Has(call.data, "direction")
          /\ call.data["direction"] \notin {S("add"), S("remove"), S("subtract")}

\* C14: an invocation that lacks its required parameter, or an add_time
\* invocation with a direction outside {add, remove, subtract}, is rejected
\* and no HTTP request is issued for it.
C14_InvalidCallRejected ==
    InvalidCall => /\ cmd_result.kind = "rejected"
                   /\ cmd_requests = <<>>
                   /\ cmd_pc = "idle"

C14_Witness ==
    /\ InvalidCall
    /\ call.service = "add_time"
    /\ Has(call.data, "time")
    /\ call.data["direction"] = S("both")
    /\ cmd_result.kind = "rejected"

(***************************************************************************)
(* The sensors' projections of the published snapshot d (coordinator.data).*)
(* A projection ends in Ok(value) or Raised(exception).                    *)
(***************************************************************************)
\* v.get(k): v a dict; None and the other values have no such method
GetOf(v, k) == IF IsDict(v) THEN Ok(Get(v, k, Null)) ELSE Raised("AttributeError")

\* OntimeTimerSensor.native_value
TimerNativeValue(d) ==
    IF Truthy(d) /\ Has(d, "timer") THEN GetOf(d["timer"], "current") ELSE Ok(Null)

\* OntimeTimerSensor.extra_state_attributes
TimerAttributes(d) ==
    IF Truthy(d) /\ Has(d, "timer")
    THEN LET timer_data == d["timer"] IN
         IF ~IsDict(timer_data) THEN Raised("AttributeError")
         ELSE Ok([duration |-> Get(timer_data, "duration", Null),
                  elapsed |-> Get(timer_data, "elapsed", Null),
                  expected_finish |-> Get(timer_data, "expectedFinish", Null),
                  started_at |-> Get(timer_data, "startedAt", Null),
                  finished_at |-> Get(timer_data, "finishedAt", Null),
                  phase |-> Get(timer_data, "phase", Null),
                  playback |-> Get(timer_data, "playback", Null)])
    ELSE Ok(EmptyDict)

\* OntimeStateSensor.native_value
StateNativeValue(d) ==
    IF ~Truthy(d) THEN Ok(S("unknown"))
    ELSE IF Has(d, "playback") THEN Ok(d["playback"])
    ELSE IF Has(d, "timer") /\ ~SupportsIn(d["timer"]) THEN Raised("TypeError")
    ELSE IF Has(d, "timer") /\ Has(d["timer"], "playback")
         THEN Ok(d["timer"]["playback"])
    ELSE IF Has(d, "runtime") /\ ~SupportsIn(d["runtime"]) THEN Raised("TypeError")
    ELSE IF Has(d, "runtime") /\ Has(d["runtime"], "playback")
         THEN Ok(d["runtime"]["playback"])
    ELSE Ok(S("unknown"))

\* event.get("title", "Unknown Event") of a truthy event
TitleOf(event) ==
    IF IsDict(event) THEN Ok(Get(event, "title", S("Unknown Event")))
    ELSE Raised("AttributeError")

\* OntimeCurrentEventSensor.native_value
CurrentEventNativeValue(d) ==
    IF Truthy(d) /\ Has(d, "current_event") /\ Truthy(d["current_event"])
    THEN TitleOf(d["current_event"])
    ELSE IF Truthy(d) /\ Has(d, "runtime")
         THEN LET runtime == d["runtime"] IN
              IF ~SupportsIn(runtime) THEN Raised("TypeError")
              ELSE IF Has(runtime, "eventNow") /\ Truthy(runtime["eventNow"])
                   THEN TitleOf(runtime["eventNow"])
                   ELSE Ok(S("No Event"))
         ELSE Ok(S("No Event"))

\* OntimeCurrentEventSensor.extra_state_attributes
CurrentEventAttributes(d) ==
    LET event ==
            IF Truthy(d) /\ Has(d, "current_event") THEN Ok(d["current_event"])
            ELSE IF Truthy(d) /\ Has(d, "runtime")
                 THEN IF ~SupportsIn(d["runtime"]) THEN Raised("TypeError")
                      ELSE Ok(Get(d["runtime"], "eventNow", Null))
                 ELSE Ok(Null)
    IN  IF event.raised # "none" THEN event
        ELSE IF ~Truthy(event.data) THEN Ok(EmptyDict)
        ELSE IF ~IsDict(event.data) THEN Raised("AttributeError")
        ELSE Ok([event_id |-> Get(event.data, "id", Null),
                 cue |-> Get(event.data, "cue", Null),
                 note |-> Get(event.data, "note", Null),
                 colour |-> Get(event.data, "colour", Null),
                 is_public |-> Get(event.data, "isPublic", Null),
                 skip |-> Get(event.data, "skip", Null),
                 time_start |-> Get(event.data, "timeStart", Null),
                 time_end |-> Get(event.data, "timeEnd", Null),
                 duration |-> Get(event.data, "duration", Null),
                 timer_type |-> Get(event.data, "timerType", Null)])

\* OntimeElapsedSensor.native_value
ElapsedNativeValue(d) ==
    IF Truthy(d) /\ Has(d, "timer") THEN GetOf(d["timer"], "elapsed") ELSE Ok(Null)

\* OntimeExpectedEndSensor.native_value: the datetime of a millisecond timestamp
ExpectedEndNativeValue(d) ==
    IF Truthy(d) /\ Has(d, "timer")
    THEN LET expected_finish == GetOf(d["timer"], "expectedFinish") IN
         IF expected_finish.raised # "none" THEN expected_finish
         ELSE IF ~Truthy(expected_finish.data) THEN Ok(Null)
         ELSE IF DOMAIN expected_finish.data = {"num"}
              THEN Ok([datetime_ms |-> expected_finish.data.num])
              ELSE Ok(Null)                  \* TypeError, caught and logged
    ELSE Ok(Null)

\* every projection the six sensors make of d
Projections(d) ==
    [timer |-> TimerNativeValue(d),
     timer_attributes |-> TimerAttributes(d),
     state |-> StateNativeValue(d),
     current_event |-> CurrentEventNativeValue(d),
     current_event_attributes |-> CurrentEventAttributes(d),
     overtime |-> Ok(OvertimeNativeValue(d)),
     overtime_attributes |-> Ok([is_overtime |-> IsOvertimeAttribute(d)]),
     elapsed |-> ElapsedNativeValue(d),
     expected_end |-> ExpectedEndNativeValue(d)]

(***************************************************************************)
(* The poll loop over payloads whose every optional field is absent, null  *)
(* or given.                                                               *)
(***************************************************************************)
\* the documents holding key k with one of values, and the one without it
Optional(k, values) == {EmptyDict} \cup {[x \in {k} |-> v] : v \in values}

TimerFull ==
    [current |-> N(-1500), playback |-> S("play"), elapsed |-> N(61500),
     expectedFinish |-> N(60000)]

FieldPayloads ==
    { t @@ en @@ ce @@ nx @@ ne @@ pb @@ sel :
        t \in Optional("timer", {Null, TimerFull, [current |-> N(5000)]}),
        en \in Optional("eventNow", {Null, Event("a"), [title |-> S("Untitled")]}),
        ce \in Optional("currentEvent", {Null, Event("c")}),
        nx \in Optional("eventNext", {Null, Event("d")}),
        ne \in Optional("nextEvent", {Null, Event("e")}),
        pb \in Optional("playback", {Null, S("pause")}),
        sel \in Optional("selectedEventId", {S("a")}) }

FieldRundownOutcomes == {ClientError, Response(200, Envelope(L(RundownExample)))}

\* a server in one given state, polled again and again
InitFields ==
    /\ InitFetch
    /\ InitCommand
    /\ InitProbe
    /\ \E T \in FieldPayloads : remote_poll = {Response(200, Envelope(T))}
    /\ \E r \in FieldRundownOutcomes : remote_rundown = {r}

SpecFields == InitFields /\ [][Next]_vars

\* what each projection returns when it has nothing to show
ProjectionDefaults ==
    [timer |-> Ok(Null),
     timer_attributes |-> Ok(EmptyDict),
     state |-> Ok(S("unknown")),
     current_event |-> Ok(S("No Event")),
     current_event_attributes |-> Ok(EmptyDict),
     overtime |-> Ok(N(0)),
     overtime_attributes |-> Ok([is_overtime |-> B(FALSE)]),
     elapsed |-> Ok(Null),
     expected_end |-> Ok(Null)]

\* C15: whichever optional fields of the published snapshot are absent or
\* null, and also before the first snapshot, no sensor projection raises; with
\* no snapshot every projection returns its default.
C15_ProjectionsNeverRaise ==
    /\ \A name \in DOMAIN Projections(coordinator_data) :
          Projections(coordinator_data)[name].raised = "none"
    /\ (coordinator_data = Null) => Projections(coordinator_data) = ProjectionDefaults

(***************************************************************************)
(* The published snapshot against the responses of the tick it came from.  *)
(***************************************************************************)
SnapshotKeys ==
    {"runtime", "timer", "current_event", "next_event", "public_next_event",
     "is_overtime", "overtime_seconds", "playback", "rundown"}

\* the values document T holds under keys
ValuesAt(T, keys) == {T[k] : k \in keys \cap DOMAIN T}

\* the rundown request itself failed: no response, a status outside
\* {200, 202}, or a body that is no JSON
RundownRequestFails(r) ==
    \/ r \in {ClientError, Hang}
    \/ IsResponse(r) /\ r.status \notin {200, 202}
    \/ Accepted(r) /\ r.body = BadJson

\* every field of snapshot d is taken from the poll response p and the rundown
\* response r
FromResponses(d, p, r) ==
    LET hasT == Accepted(p) /\ Has(p.body, "payload")
        T == p.body["payload"]
        hasR == Accepted(r) /\ Has(r.body, "payload")
        R == r.body["payload"]
    IN  /\ DOMAIN d \subseteq SnapshotKeys
        /\ Has(d, "runtime") => hasT /\ d["runtime"] = T
        /\ Has(d, "timer") => hasT /\ d["timer"] \in ValuesAt(T, {"timer"})
        /\ Has(d, "current_event")
              => hasT /\ d["current_event"] \in ValuesAt(T, {"eventNow", "currentEvent"})
        /\ Has(d, "next_event")
              => \/ hasT /\ d["next_event"] \in ValuesAt(T, {"eventNext", "nextEvent"})
                 \/ /\ hasR /\ IsList(R)
                    /\ \E i \in 1..Len(R.list) : R.list[i] = d["next_event"]
        /\ Has(d, "public_next_event")
              => hasT /\ d["public_next_event"] \in ValuesAt(T, {"publicEventNext"})
        /\ Has(d, "playback")
              => hasT /\ d["playback"] \in
                    ValuesAt(T, {"playback"})
                        \cup (IF Has(T, "timer") /\ IsDict(T["timer"])
                              THEN ValuesAt(T["timer"], {"playback"}) ELSE {})
        /\ (Has(d, "is_overtime") \/ Has(d, "overtime_seconds"))
              => hasT /\ Has(T, "timer")
        /\ Has(d, "rundown") => hasR /\ d["rundown"] = R
        /\ RundownRequestFails(r) => ~Has(d, "rundown")

\* C16: every field of the published snapshot comes from the responses of the
\* most recent successful tick; a field that tick could not obtain (rundown
\* after a failed rundown request) is absent, not carried over.
C16_SnapshotFromLatestTick ==
    /\ (update_result = "ok")
          => FromResponses(coordinator_data, poll_response, rundown_response)
    /\ (fetch_pc = "poll") => data = EmptyDict

\* a tick whose rundown request failed, published without rundown
C16_Witness ==
    /\ update_result = "ok"
    /\ rundown_response = ClientError
    /\ Has(coordinator_data, "timer")
    /\ ~Has(coordinator_data, "rundown")
    /\ ~Has(coordinator_data, "next_event")

(***************************************************************************)
(* The event fields taken from the primary response.                       *)
(***************************************************************************)
\* the value of the first of T's two keys that is present and not null
FirstNonNull(T, first, second) ==
    IF Get(T, first, Null) # Null THEN T[first]
    ELSE Get(T, second, Null)

\* the poll response was accepted and its payload extracted into data
PrimaryExtracted ==
    /\ fetch_pc = "rundown"
    /\ Accepted(poll_response)
    /\ Has(poll_response.body, "payload")

\* C17: the current event is T.eventNow when non-null, otherwise
\* T.currentEvent when non-null, otherwise absent; the next event taken from
\* the primary response is T.eventNext when non-null, otherwise T.nextEvent.
C17_FirstNonNullWins ==
    PrimaryExtracted
        => /\ Get(data, "current_event", Null)
                = FirstNonNull(PollPayload, "eventNow", "currentEvent")
           /\ Get(data, "next_event", Null)
                = FirstNonNull(PollPayload, "eventNext", "nextEvent")

(***************************************************************************)
(* Rundown inference against the payload it starts from.                   *)
(***************************************************************************)
\* the tick published a snapshot built from a payload and a rundown list
RundownListPublished ==
    /\ PublishedFromEnvelope
    /\ Accepted(rundown_response)
    /\ Has(rundown_response.body, "payload")
    /\ IsList(rundown_response.body["payload"])

RundownEvents == rundown_response.body["payload"].list

\* the positions of the playable entries after the event entry carrying id
PlayableAfter(events, id) ==
    LET at == {i \in DOMAIN events :
                 events[i]["id"] = id /\ events[i]["type"] = S("event")}
    IN  {j \in DOMAIN events : at # {} /\ j > Min(at) /\ Playable(events[j])}

\* C18: rundown inference applies whenever the primary response left next
\* event without a value: with eventNext (or nextEvent) present but null and a
\* playable entry after the current event, next event is that entry, not null.
C18_NullNextInferred ==
    ( /\ RundownListPublished
      /\ Has(PollPayload, "eventNow") /\ Has(PollPayload["eventNow"], "id")
      /\ Has(PollPayload, "eventNext") \/ Has(PollPayload, "nextEvent")
      /\ FirstNonNull(PollPayload, "eventNext", "nextEvent") = Null
      /\ PlayableAfter(RundownEvents, PollPayload["eventNow"]["id"]) # {} )
        => /\ Has(coordinator_data, "next_event")
           /\ coordinator_data["next_event"]
                = RundownEvents[Min(PlayableAfter(RundownEvents,
                                                  PollPayload["eventNow"]["id"]))]

\* the id that locates the current position: the current event's id when it
\* has one, otherwise the server's selectedEventId
LocatingId(d, T) ==
    LET current_event == Get(d, "current_event", Null)
    IN  IF Has(current_event, "id") /\ current_event["id"] # Null
        THEN current_event["id"]
        ELSE Get(T, "selectedEventId", Null)

\* C19: the rundown position is located by the current event's id when it has
\* one and otherwise by selectedEventId, both when there is no current event
\* and when the current event record carries no id.
C19_SelectedIdFallback ==
    ( /\ RundownListPublished
      /\ ~Has(PollPayload, "eventNext") /\ ~Has(PollPayload, "nextEvent") )
        => LET id == LocatingId(coordinator_data, PollPayload)
               after == IF id = Null THEN {} ELSE PlayableAfter(RundownEvents, id)
           IN  IF after # {}
               THEN /\ Has(coordinator_data, "next_event")
                    /\ coordinator_data["next_event"] = RundownEvents[Min(after)]
               ELSE ~Has(coordinator_data, "next_event")

\* C20: for every accepted poll payload T, timer absent or null included, the
\* snapshot's playback is T.playback when that key is present, otherwise
\* T.timer.playback when present, otherwise absent, and determining it never
\* makes the fetch fail.
C20_PlaybackNeverFails ==
    (Accepted(poll_response) /\ Has(poll_response.body, "payload"))
        => /\ update_result # "UpdateFailed"
           /\ (fetch_pc = "rundown")
                 => IF Has(PollPayload, "playback")
                    THEN Get(data, "playback", EmptyDict) = PollPayload["playback"]
                    ELSE IF /\ Has(PollPayload, "timer")
                            /\ Has(PollPayload["timer"], "playback")
                         THEN Get(data, "playback", EmptyDict)
                                = PollPayload["timer"]["playback"]
                         ELSE ~Has(data, "playback")

(***************************************************************************)
(* The overtime event against the sequence of published snapshots.         *)
(***************************************************************************)
\* snapshot d is in overtime
Overtime(d) == d # Null /\ Get(d, "is_overtime", B(FALSE)) = B(TRUE)

\* the step publishes a snapshot
Publishes == fetch_pc = "rundown" /\ update_result' = "ok"

\* C21: ontime_overtime_started is fired exactly once for each transition of
\* successive published snapshots from not-overtime (or no snapshot) to
\* overtime, not again while the snapshots stay in overtime, and by no step
\* that publishes nothing.
C21_FiredOncePerTransition ==
    [][ IF Publishes /\ ~Overtime(coordinator_data) /\ Overtime(coordinator_data')
        THEN events_fired' = events_fired + 1
        ELSE events_fired' = events_fired ]_vars

\* a server whose timer is in overtime at every instant, and whose answers go
\* wrong in every way
OvertimePollOutcomes ==
    {ClientError, Hang}
        \cup {Response(st, b) : st \in PollStatuses,
                                b \in {BadJson, PayloadOvertime, Envelope(PayloadOvertime)}}

InitOvertimeServer ==
    /\ InitFetch
    /\ InitCommand
    /\ InitProbe
    /\ remote_poll = OvertimePollOutcomes
    /\ remote_rundown = RundownOutcomes

SpecOvertimeServer == InitOvertimeServer /\ [][Next]_vars

\* C22: while the server's timer stays in overtime, ontime_overtime_started is
\* fired at most once, whatever poll ticks go wrong in between.
C22_AtMostOnceWhileOvertime == events_fired <= 1

(***************************************************************************)
(* Commands while config entries come and go.                              *)
(***************************************************************************)
InitEntries ==
    /\ InitFetch
    /\ InitProbe
    /\ call = NoCall
    /\ cmd_pc = "idle"
    /\ cmd_requests = <<>>
    /\ cmd_response = NoResponse
    /\ cmd_result = [kind |-> "none"]
    /\ loaded = {}
    /\ service_coordinator = "none"
    /\ remote_poll = PollOutcomes
    /\ remote_rundown = RundownOutcomes

NextEntries ==
    \/ \E entry \in Entries : SetupEntry(entry)
    \/ \E entry \in Entries : UnloadEntry(entry)
    \/ \E service \in {"start", "stop", "load_event", "load_event_index"} :
          \E call_data \in CallData(service) : CallService(service, call_data)
    \/ \E outcome \in CommandOutcomes : CommandDone(outcome)

SpecEntries == InitEntries /\ [][NextEntries]_vars

\* the step dispatches a command request
Dispatches == cmd_pc = "idle" /\ cmd_pc' = "await"

\* C23: every command is sent to the base URL of a config entry that is
\* loaded at the time of the call; once an entry is unloaded no command
\* request is sent to its server.
C23_CommandsToLoadedEntry ==
    [][ Dispatches
          => \E entry \in loaded :
                cmd_requests'[1].url
                    = "http://" \o host(entry) \o ":4001/api"
                        \o cmd_requests'[1].endpoint ]_vars

InitTimeouts ==
    /\ InitFetch
    /\ InitCommand
    /\ InitProbe
    /\ remote_poll = {Hang, Response(200, Envelope(PayloadOvertime)),
                      Response(200, Envelope(PayloadRunning))}
    /\ remote_rundown = {Hang, Response(200, Envelope(L(RundownExample)))}

TimeoutCommandOutcomes ==
    {Hang, ControlResponse(200, Envelope(S("ok")), N(16)),
     ControlResponse(503, Envelope(S("busy")), N(18))}

NextTimeouts ==
    \/ Tick
    \/ PollDone
    \/ RundownDone
    \/ \E service \in {"start", "load_event"} :
          \E call_data \in CallData(service) : CallService(service, call_data)
    \/ \E outcome \in TimeoutCommandOutcomes : CommandDone(outcome)

\* async_timeout.timeout(10) bounds every request: a step that ends it is
\* always taken
SpecTimeouts ==
    /\ InitTimeouts
    /\ [][NextTimeouts]_vars
    /\ WF_vars(PollDone)
    /\ WF_vars(RundownDone)
    /\ WF_vars(\E outcome \in TimeoutCommandOutcomes : CommandDone(outcome))

\* C25: a fetch or a command whose request never completes does not stay
\* pending: the fetch ends as a failed tick (UpdateFailed), the command ends
\* by raising a timeout error to its caller.
C25_TimeoutEndsRequest ==
    /\ [](Hang \in {poll_response, rundown_response}
            => (update_result = "UpdateFailed" /\ fetch_pc = "idle"))
    /\ [](cmd_response = Hang
            => (cmd_result = CommandRaised("TimeoutError") /\ cmd_pc = "idle"))
    /\ ((fetch_pc # "idle") ~> (fetch_pc = "idle"))
    /\ ((cmd_pc = "await") ~> (cmd_pc = "idle"))

C25_Witness ==
    /\ rundown_response = Hang
    /\ update_result = "UpdateFailed"
    /\ cmd_response = Hang
    /\ cmd_result = CommandRaised("TimeoutError")

(***************************************************************************)
(* What api_request returns.                                               *)
(***************************************************************************)
\* the response carries no body
EmptyBody(r) == r.content_length = N(0)

\* C26: on a 200 or 202 response api_request returns the payload, or the
\* whole body when it has no payload key, whenever the body is non-empty, a
\* body of undeclared length included, and nothing only when it is empty.
C26_ReturnsBody ==
    (IsResponse(cmd_response) /\ Accepted(cmd_response))
        => cmd_result = IF EmptyBody(cmd_response) THEN Returned(Null)
                        ELSE Returned(Unwrap(cmd_response.body))

(***************************************************************************)
(* The config flow and its connectivity probe.                             *)
(***************************************************************************)
ProbeBodies ==
    {Envelope(S("3.0")), S("3.0"), [version |-> S("3.0")], Null,
     PlainText(5), PlainText(40)}

ProbeOutcomes ==
    {ClientError, ServerTimeout, Hang}
        \cup {Response(st, body) : st \in {200, 202, 404}, body \in ProbeBodies}

NextProbe ==
    \/ ProbeStart
    \/ \E outcome \in ProbeOutcomes : ProbeAttemptDone(outcome)

SpecProbe == Init /\ [][NextProbe]_vars

\* the first n entries of test_configs
TriedInOrder(n) == probe_log = SubSeq(test_configs, 1, n)

\* C27: the four attempts are tried in a fixed order and the probe stops at
\* the first success; a failed attempt (connection error, non-200 status,
\* timeout, any other exception) never prevents the remaining attempts, and
\* the probe returns false only after all four have failed.
C27_AllAttemptsTried ==
    /\ (probe_pc # "idle") => TriedInOrder(probe_index)
    /\ (probe_result = "true") => AttemptResult(probe_response) = "success"
    /\ (probe_result = "false") => probe_index = Len(test_configs)
    /\ (probe_pc = "done")
          => \/ probe_result = "true"
             \/ probe_result = "false" /\ probe_index = Len(test_configs)

\* C28: the flow creates a config entry only if the probe reported success;
\* when the probe reports failure the form is shown again with error
\* cannot_connect and no entry is created.
C28_EntryOnlyOnSuccess ==
    [][ /\ (flow_result' = "create_entry") => (probe_result' = "true")
        /\ (configured' # configured) => (probe_result' = "true")
        /\ (probe_result' = "false")
              => (flow_result' = "cannot_connect" /\ configured' = configured)
      ]_vars

\* all four attempts failed and the form is shown again
C28_Witness ==
    /\ probe_pc = "done"
    /\ probe_result = "false"
    /\ Len(probe_log) = 4
    /\ flow_result = "cannot_connect"
    /\ ~configured

====
